---- MODULE Spec2Model ----
(***************************************************************************)
(* The 'delete' command of the orthos2 API (api/commands/delete.py): the   *)
(* dispatcher DeleteCommand.get and the three handlers                     *)
(* Delete{Machine,SerialConsole,RemotePower}Command with their get         *)
(* (describe) and post (execute) methods, over a repository of Machine     *)
(* records with serial-console and remote-power sub-resources and a        *)
(* virtualization backend per hypervisor.                                  *)
(*                                                                         *)
(* Strings the code computes on (the args of the dispatcher, the posted    *)
(* fqdn, the kind labels of a deletion result) are sequences of            *)
(* one-character strings, so that split(), lower(), iexact and replace()   *)
(* are computed, not assumed.                                              *)
(***************************************************************************)
EXTENDS Integers, Sequences, FiniteSets, TLC

\* Number of Machine records of the repository.
MaxMachines == 2
\* Largest number of whitespace-separated tokens of a dispatcher argument.
MaxTokens == 2
MaxRows == 2
MaxCount == 1

(***************************************************************************)
(* Strings                                                                 *)
(***************************************************************************)
UpperChars == <<"A","B","C","D","E","F","G","H","I","J","K","L","M",
                "N","O","P","Q","R","S","T","U","V","W","X","Y","Z">>
LowerChars == <<"a","b","c","d","e","f","g","h","i","j","k","l","m",
                "n","o","p","q","r","s","t","u","v","w","x","y","z">>

\* str.isspace() of one character, for the characters the inputs use.
IsSpace(c) == c \in {" ", "\t"}

Digits == <<"0","1","2","3","4","5","6","7","8","9">>

\* Every character of the strings of the model.
Chars ==
    {UpperChars[i] : i \in 1..26} \cup {LowerChars[i] : i \in 1..26}
        \cup {Digits[i] : i \in 1..10} \cup {" ", "\t", "."}

\* str.lower() and str.upper() of one character.
LowerChar ==
    [c \in Chars |->
        IF \E i \in 1..26 : UpperChars[i] = c
        THEN LowerChars[CHOOSE i \in 1..26 : UpperChars[i] = c]
        ELSE c]

UpperChar ==
    [c \in Chars |->
        IF \E i \in 1..26 : LowerChars[i] = c
        THEN UpperChars[CHOOSE i \in 1..26 : LowerChars[i] = c]
        ELSE c]

\* str.lower()
Lower(s) == [i \in 1..Len(s) |-> LowerChar[s[i]]]

\* str.upper(); used to build inputs only.
Upper(s) == [i \in 1..Len(s) |-> UpperChar[s[i]]]

RECURSIVE SplitFrom(_, _, _, _)
\* str.split() without separator: the maximal runs of non-whitespace.
\* i is the scan position, cur the token being read, acc the tokens read.
SplitFrom(s, i, cur, acc) ==
    IF i > Len(s)
    THEN IF cur = <<>> THEN acc ELSE Append(acc, cur)
    ELSE IF IsSpace(s[i])
         THEN SplitFrom(s, i + 1, <<>>, IF cur = <<>> THEN acc ELSE Append(acc, cur))
         ELSE SplitFrom(s, i + 1, Append(cur, s[i]), acc)

Split(s) == SplitFrom(s, 1, <<>>, <<>>)

\* arguments[1:]
Tail1(seq) == SubSeq(seq, 2, Len(seq))

(***************************************************************************)
(* class Delete: the registered items                                      *)
(***************************************************************************)
MACHINE == <<"m","a","c","h","i","n","e">>
SERIALCONSOLE == <<"s","e","r","i","a","l","c","o","n","s","o","l","e">>
REMOTEPOWER == <<"r","e","m","o","t","e","p","o","w","e","r">>

as_list == <<MACHINE, SERIALCONSOLE, REMOTEPOWER>>

Kinds == {"machine", "serialconsole", "remotepower"}

\* get_urls() of the three handlers: the name each registers its view under.
UrlName(kind) ==
    CASE kind = "machine" -> "machine_delete"
      [] kind = "serialconsole" -> "serialconsole_delete"
      [] kind = "remotepower" -> "remotepower_delete"

\* URL_POST of the three handlers.
URL_POST(kind) ==
    CASE kind = "machine" -> "/machine/delete"
      [] kind = "serialconsole" -> "/serialconsole/delete"
      [] kind = "remotepower" -> "/remotepower/delete"

(***************************************************************************)
(* Responses.  One record shape for every response:                        *)
(*   kind  "ErrorMessage" | "AuthRequired" | "Input" | "Table" |           *)
(*         "Redirect" | "Unhandled" (an exception left the view)           *)
(*   text  the message of an ErrorMessage (its format string for           *)
(*         "Unknown item '{}'!"), the exception of an Unhandled            *)
(*   item  the argument formatted into "Unknown item '{}'!"                *)
(*   path  the target of a Redirect, the submit path of an Input           *)
(*   fields  the ordered field keys of an Input                            *)
(*   rows  the data rows of a Table, each [objects, count]                 *)
(***************************************************************************)
NoResponse ==
    [kind |-> "None", text |-> "", item |-> <<>>, path |-> "", fields |-> <<>>,
     rows |-> <<>>]

ErrorMessage(msg) == [NoResponse EXCEPT !.kind = "ErrorMessage", !.text = msg]

ErrorMessageFmt(fmt, arg) ==
    [NoResponse EXCEPT !.kind = "ErrorMessage", !.text = fmt, !.item = arg]

AuthRequiredSerializer == [NoResponse EXCEPT !.kind = "AuthRequired"]

InputSerializer(fields, path) ==
    [NoResponse EXCEPT !.kind = "Input", !.fields = fields, !.path = path]

JsonResponseTable(rows) == [NoResponse EXCEPT !.kind = "Table", !.rows = rows]

Redirect(path) == [NoResponse EXCEPT !.kind = "Redirect", !.path = path]

\* An exception that no handler of the view catches.
Unhandled(exc) == [NoResponse EXCEPT !.kind = "Unhandled", !.text = exc]

MsgItemMissing == "Item is missing!"
MsgUnknownItem == "Unknown item '{}'!"
MsgSuperuser == "Only superusers are allowed to perform this action!"
MsgNoVirtApi == "No virtualization API found!"
MsgNoSerialConsole == "Machine has no serial console!"
MsgNoRemotePower == "Machine has no remote power!"
MsgWentWrong == "Something went wrong!"

MsgInvalidCount(kind) ==
    CASE kind = "machine" -> "Invalid number of arguments for 'machine'!"
      [] kind = "serialconsole" -> "Invalid number of arguments for 'serialconsole'!"
      [] kind = "remotepower" -> "Invalid number of arguments for 'remotepower'!"

(***************************************************************************)
(* DeleteCommand.get: the dispatcher.  args is [present, value]:           *)
(* request.GET.get('args', None).                                          *)
(***************************************************************************)
\* Lines 78-96, once item and sub_arguments are bound.  A Redirect carries
\* the url name handed to reverse().
DispatchItem(item, sub_arguments) ==
    IF item = MACHINE
    THEN IF Len(sub_arguments) # 0
         THEN ErrorMessage(MsgInvalidCount("machine"))
         ELSE Redirect("machine_delete")
    ELSE IF item = SERIALCONSOLE
    THEN IF Len(sub_arguments) # 0
         THEN ErrorMessage(MsgInvalidCount("serialconsole"))
         ELSE Redirect("serialconsole_delete")
    ELSE IF item = REMOTEPOWER
    THEN IF Len(sub_arguments) # 0
         THEN ErrorMessage(MsgInvalidCount("remotepower"))
         ELSE Redirect("remotepower_delete")
    ELSE ErrorMessageFmt(MsgUnknownItem, item)

\* ItemOf without lower().
ItemOfVerbatim(arguments) == arguments[1]

\* item = arguments[0].lower()
ItemOf(arguments) == Lower(arguments[1])

DeleteCommandGet(args) ==
    IF args.present /\ args.value # <<>>
    THEN LET arguments == Split(args.value)
         IN  IF arguments = <<>>
             THEN Unhandled("IndexError")
             ELSE DispatchItem(ItemOf(arguments), Tail1(arguments))
    ELSE ErrorMessage(MsgItemMissing)

(***************************************************************************)
(* The repository: Machine records 1..MaxMachines, each with a stored      *)
(* fqdn, optionally a serial console and a remote power, a virtual flag    *)
(* and a hypervisor; a hypervisor may carry a virtualization API.          *)
(***************************************************************************)
VARIABLES
    machines,       \* the Machine records that exist
    sc,             \* the machines that have a serial console record
    rp,             \* the machines that have a remote power record
    virtual,        \* machine -> is_virtual_machine()
    hypervisor,     \* machine -> its hypervisor, NoMachine when it has none
    api,            \* machine -> its virtualization_api is not None
    decommissioned, \* the machines whose virtual instance the backend removed
    succeeded,      \* the fqdns posted to a machine delete that returned a table
    last,           \* the request being answered, its response and what it
                    \* did; NoRequest while no request is in the view
    reqs,           \* client -> the request it has in a view, step by step,
                    \* where requests run concurrently
    rendering       \* a removal-count mapping and the table built from it,
                    \* where the table is built on its own

vars ==
    <<machines, sc, rp, virtual, hypervisor, api, decommissioned, succeeded, last,
      reqs, rendering>>

MachineIds == 1..MaxMachines
NoMachine == 0

\* The stored fqdn of a machine; every other one is stored in upper case.
Fqdn(m) ==
    IF m % 2 = 0 THEN <<"H", Digits[(m % 10) + 1]>> ELSE <<"h", Digits[(m % 10) + 1]>>

\* The repository and backend as one value.
Repo ==
    [machines |-> machines, sc |-> sc, rp |-> rp, hypervisor |-> hypervisor,
     decommissioned |-> decommissioned]

\* Machine.objects.get(fqdn__iexact=...): the machine, or NoMachine when the
\* lookup raises (DoesNotExist, MultipleObjectsReturned).
MachineObjectsGet(db, fqdn) ==
    LET found == {m \in db.machines : Lower(Fqdn(m)) = Lower(fqdn)}
    IN  IF Cardinality(found) = 1 THEN CHOOSE m \in found : TRUE ELSE NoMachine

is_virtual_machine(m) == virtual[m]

get_hypervisor(db, m) == db.hypervisor[m]

has_serialconsole(db, m) == m \in db.sc

has_remotepower(db, m) == m \in db.rp

(***************************************************************************)
(* The deletion result of the repository: (total, {label: count}), the     *)
(* mapping kept as a sequence of <<label, count>> in dict order.           *)
(***************************************************************************)
LabelMachine == <<"d","a","t","a",".","M","a","c","h","i","n","e">>
LabelSerialConsole ==
    <<"d","a","t","a",".","S","e","r","i","a","l","C","o","n","s","o","l","e">>
LabelRemotePower ==
    <<"d","a","t","a",".","R","e","m","o","t","e","P","o","w","e","r">>
DataPrefix == <<"d","a","t","a",".">>

Count(b) == IF b THEN 1 ELSE 0

\* machine.delete(): the record, its serial console and its remote power go;
\* the machines it hypervises lose their hypervisor.
MachineDelete(db, m) ==
    [db |-> [db EXCEPT !.machines = @ \ {m}, !.sc = @ \ {m}, !.rp = @ \ {m},
                       !.hypervisor = [v \in MachineIds |->
                                          IF @[v] = m THEN NoMachine ELSE @[v]]],
     counts |-> << <<LabelMachine, 1>>,
                   <<LabelSerialConsole, Count(m \in db.sc)>>,
                   <<LabelRemotePower, Count(m \in db.rp)>> >>]

\* machine.serialconsole.delete()
SerialConsoleDelete(db, m) ==
    [db |-> [db EXCEPT !.sc = @ \ {m}],
     counts |-> << <<LabelSerialConsole, 1>> >>]

\* machine.remotepower.delete()
RemotePowerDelete(db, m) ==
    [db |-> [db EXCEPT !.rp = @ \ {m}],
     counts |-> << <<LabelRemotePower, 1>> >>]

\* host.virtualization_api.remove(machine) returning True.
BackendRemove(db, m) == [db EXCEPT !.decommissioned = @ \cup {m}]

RECURSIVE ReplaceFrom(_, _, _)
\* str.replace(old, ''): every non-overlapping occurrence of old, left to right.
ReplaceFrom(s, old, i) ==
    IF i > Len(s) THEN <<>>
    ELSE IF i + Len(old) - 1 <= Len(s) /\ SubSeq(s, i, i + Len(old) - 1) = old
         THEN ReplaceFrom(s, old, i + Len(old))
         ELSE <<s[i]>> \o ReplaceFrom(s, old, i + 1)

\* key.replace('data.', '')
StripData(key) == ReplaceFrom(key, DataPrefix, 1)

\* Lines 156-172: the table built from result[1].items().
TableOf(counts) ==
    JsonResponseTable([i \in 1..Len(counts) |->
        [objects |-> StripData(counts[i][1]), count |-> counts[i][2]]])

\* Labels of records of other applications that a cascade may count.
LabelAuthUser == <<"a","u","t","h",".","U","s","e","r">>
LabelMetadataEntry == <<"m","e","t","a","d","a","t","a",".","E","n","t","r","y">>

Labels ==
    {LabelMachine, LabelSerialConsole, LabelRemotePower, LabelAuthUser,
     LabelMetadataEntry}

\* result[1] of a delete(): up to MaxRows labels, each once, with its count.
CountMappings ==
    UNION {{counts \in [1..n -> Labels \X (0..MaxCount)] :
               \A i, j \in 1..n : i # j => counts[i][1] # counts[j][1]} :
           n \in 1..MaxRows}

NoRendering == [counts |-> <<>>, resp |-> NoResponse]

(***************************************************************************)
(* Principals: request.user and request.auth.  An AnonymousUser is no      *)
(* superuser and carries no credential.                                    *)
(***************************************************************************)
Users ==
    {u \in [anonymous : BOOLEAN, auth : BOOLEAN, is_superuser : BOOLEAN] :
        u.anonymous => (~u.auth /\ ~u.is_superuser)}

(***************************************************************************)
(* Request bodies.  parses: json.loads succeeds and yields an object;      *)
(* hasForm: it has the key 'form'; hasFqdn, fqdn: the form's fqdn.         *)
(***************************************************************************)
NoFqdn == <<>>
UnknownFqdn == <<"x","0">>

FqdnInputs ==
    {NoFqdn, UnknownFqdn} \cup {Fqdn(m) : m \in MachineIds}
        \cup {Lower(Fqdn(m)) : m \in MachineIds} \cup {Upper(Fqdn(m)) : m \in MachineIds}

Bodies ==
    {[parses |-> FALSE, hasForm |-> FALSE, hasFqdn |-> FALSE, fqdn |-> NoFqdn],
     [parses |-> TRUE, hasForm |-> FALSE, hasFqdn |-> FALSE, fqdn |-> NoFqdn],
     [parses |-> TRUE, hasForm |-> TRUE, hasFqdn |-> FALSE, fqdn |-> NoFqdn]}
    \cup {[parses |-> TRUE, hasForm |-> TRUE, hasFqdn |-> TRUE, fqdn |-> f] :
             f \in FqdnInputs}

\* json.loads(request.body.decode('utf-8'))['form']: the exception raised, or "".
JsonLoadsForm(body) ==
    IF ~body.parses THEN "JSONDecodeError"
    ELSE IF ~body.hasForm THEN "KeyError"
    ELSE ""

\* The forms: one required field, fqdn.
FormOrder == <<"fqdn">>

\* form.is_valid()
FormIsValid(body) == body.hasFqdn /\ body.fqdn # NoFqdn

\* "\n{}".format(format_cli_form_errors(form))
MsgFormErrors == "\nfqdn: This field is required."

(***************************************************************************)
(* What the external collaborators do in one request: the backend's        *)
(* remove() returns True or False or raises; the repository's delete()     *)
(* returns or raises (and then removed nothing).                           *)
(***************************************************************************)
Envs == [remove : {"true", "false", "raise"}, delete : {"ok", "raise"}]

\* The outcome of a request: the response, the repository after it, and the
\* calls it made (lookups, backend remove calls, repository delete calls).
Outcome(resp, db, lookups, removes, deletes) ==
    [resp |-> resp, db |-> db, lookups |-> lookups, removes |-> removes,
     deletes |-> deletes]

InternalError(db, lookups, removes, deletes) ==
    Outcome(ErrorMessage(MsgWentWrong), db, lookups, removes, deletes)

(***************************************************************************)
(* DeleteMachineCommand                                                    *)
(***************************************************************************)
DeleteMachineCommandGet(user, db) ==
    IF user.anonymous \/ ~user.auth
    THEN Outcome(AuthRequiredSerializer, db, 0, 0, 0)
    ELSE IF ~user.is_superuser
    THEN Outcome(ErrorMessage(MsgSuperuser), db, 0, 0, 0)
    ELSE Outcome(InputSerializer(FormOrder, URL_POST("machine")), db, 0, 0, 0)

\* MachineDeleteStep with a delete() that raised issued a second time.
MachineDeleteStepRetrying(db, machine, env, removes) ==
    IF env.delete = "raise"
    THEN InternalError(db, 1, removes, 2)
    ELSE LET result == MachineDelete(db, machine)
         IN  Outcome(TableOf(result.counts), result.db, 1, removes, 1)

\* Lines 152, 154 and 156-172: result = machine.delete() and the table; a
\* delete() that raises lands in the except clause.
MachineDeleteStep(db, machine, env, removes) ==
    IF env.delete = "raise"
    THEN InternalError(db, 1, removes, 1)
    ELSE LET result == MachineDelete(db, machine)
         IN  Outcome(TableOf(result.counts), result.db, 1, removes, 1)

\* RemoveThenDelete with the return value of remove() ignored: the record is
\* deleted although the backend refused, and the request still fails.
RemoveThenDeleteIgnoringResult(db, machine, env) ==
    CASE env.remove = "raise" -> InternalError(db, 1, 1, 0)
      [] env.remove = "false" -> InternalError(MachineDelete(db, machine).db, 1, 1, 1)
      [] env.remove = "true" ->
            MachineDeleteStep(BackendRemove(db, machine), machine, env, 1)

\* Lines 151-152: remove() guards the delete; when it returns False, result
\* stays unbound and line 165 raises into the except clause.
RemoveThenDelete(db, machine, env) ==
    CASE env.remove = "raise" -> InternalError(db, 1, 1, 0)
      [] env.remove = "false" -> InternalError(db, 1, 1, 0)
      [] env.remove = "true" ->
            MachineDeleteStep(BackendRemove(db, machine), machine, env, 1)

\* MachineBranch without the check of host.virtualization_api.
MachineBranchNoApiCheck(db, machine, env) ==
    IF is_virtual_machine(machine)
    THEN LET host == get_hypervisor(db, machine)
         IN  IF host = NoMachine
             THEN InternalError(db, 1, 0, 0)
             ELSE RemoveThenDelete(db, machine, env)
    ELSE MachineDeleteStep(db, machine, env, 0)

\* Lines 145-154, once machine is bound.
MachineBranch(db, machine, env) ==
    IF is_virtual_machine(machine)
    THEN LET host == get_hypervisor(db, machine)
         IN  IF host = NoMachine
             THEN InternalError(db, 1, 0, 0)      \* None.virtualization_api
             ELSE IF ~api[host]
             THEN Outcome(ErrorMessage(MsgNoVirtApi), db, 1, 0, 0)
             ELSE RemoveThenDelete(db, machine, env)
    ELSE MachineDeleteStep(db, machine, env, 0)

\* MachineTry handing every machine, virtual or not, to the backend.
MachineTryAlwaysRemove(db, fqdn, env) ==
    LET machine == MachineObjectsGet(db, fqdn)
    IN  IF machine = NoMachine
        THEN InternalError(db, 1, 0, 0)
        ELSE RemoveThenDelete(db, machine, env)

\* Lines 140-176: the try block.
MachineTry(db, fqdn, env) ==
    LET machine == MachineObjectsGet(db, fqdn)
    IN  IF machine = NoMachine
        THEN InternalError(db, 1, 0, 0)
        ELSE MachineBranch(db, machine, env)

\* DeleteMachineCommandPost with the lookup made before the form is validated.
DeleteMachineCommandPostLookupFirst(user, body, db, env) ==
    IF ~user.is_superuser
    THEN Outcome(ErrorMessage(MsgSuperuser), db, 0, 0, 0)
    ELSE IF JsonLoadsForm(body) # ""
    THEN Outcome(Unhandled(JsonLoadsForm(body)), db, 0, 0, 0)
    ELSE LET out == MachineTry(db, body.fqdn, env)
         IN  IF FormIsValid(body)
             THEN out
             ELSE Outcome(ErrorMessage(MsgFormErrors), db, out.lookups, 0, 0)

DeleteMachineCommandPost(user, body, db, env) ==
    IF ~user.is_superuser
    THEN Outcome(ErrorMessage(MsgSuperuser), db, 0, 0, 0)
    ELSE IF JsonLoadsForm(body) # ""
    THEN Outcome(Unhandled(JsonLoadsForm(body)), db, 0, 0, 0)
    ELSE IF FormIsValid(body)
    THEN MachineTry(db, body.fqdn, env)
    ELSE Outcome(ErrorMessage(MsgFormErrors), db, 0, 0, 0)

(***************************************************************************)
(* DeleteSerialConsoleCommand                                              *)
(***************************************************************************)
\* DeleteSerialConsoleCommandGet with the submit path of the machine handler.
DeleteSerialConsoleCommandGetMachinePath(user, db) ==
    IF user.anonymous \/ ~user.auth
    THEN Outcome(AuthRequiredSerializer, db, 0, 0, 0)
    ELSE IF ~user.is_superuser
    THEN Outcome(ErrorMessage(MsgSuperuser), db, 0, 0, 0)
    ELSE Outcome(InputSerializer(FormOrder, URL_POST("machine")), db, 0, 0, 0)

DeleteSerialConsoleCommandGet(user, db) ==
    IF user.anonymous \/ ~user.auth
    THEN Outcome(AuthRequiredSerializer, db, 0, 0, 0)
    ELSE IF ~user.is_superuser
    THEN Outcome(ErrorMessage(MsgSuperuser), db, 0, 0, 0)
    ELSE Outcome(InputSerializer(FormOrder, URL_POST("serialconsole")), db, 0, 0, 0)

\* SerialConsoleTry on filter(...).delete() semantics: a machine that is not
\* found gives an empty deletion result instead of an exception.
SerialConsoleTryEmptyResult(db, fqdn, env) ==
    LET machine == MachineObjectsGet(db, fqdn)
    IN  IF machine = NoMachine
        THEN Outcome(TableOf(<<>>), db, 1, 0, 1)
        ELSE IF ~has_serialconsole(db, machine)
        THEN Outcome(ErrorMessage(MsgNoSerialConsole), db, 1, 0, 0)
        ELSE IF env.delete = "raise"
        THEN InternalError(db, 1, 0, 1)
        ELSE LET result == SerialConsoleDelete(db, machine)
             IN  Outcome(TableOf(result.counts), result.db, 1, 0, 1)

\* Lines 226-256: the try block.
SerialConsoleTry(db, fqdn, env) ==
    LET machine == MachineObjectsGet(db, fqdn)
    IN  IF machine = NoMachine
        THEN InternalError(db, 1, 0, 0)
        ELSE IF ~has_serialconsole(db, machine)
        THEN Outcome(ErrorMessage(MsgNoSerialConsole), db, 1, 0, 0)
        ELSE IF env.delete = "raise"
        THEN InternalError(db, 1, 0, 1)
        ELSE LET result == SerialConsoleDelete(db, machine)
             IN  Outcome(TableOf(result.counts), result.db, 1, 0, 1)

\* DeleteSerialConsoleCommandPost with the superuser check after the form
\* handling instead of before it.
DeleteSerialConsoleCommandPostLateCheck(user, body, db, env) ==
    IF JsonLoadsForm(body) # ""
    THEN Outcome(Unhandled(JsonLoadsForm(body)), db, 0, 0, 0)
    ELSE IF ~FormIsValid(body)
    THEN Outcome(ErrorMessage(MsgFormErrors), db, 0, 0, 0)
    ELSE IF ~user.is_superuser
    THEN Outcome(ErrorMessage(MsgSuperuser), db, 0, 0, 0)
    ELSE SerialConsoleTry(db, body.fqdn, env)

DeleteSerialConsoleCommandPost(user, body, db, env) ==
    IF ~user.is_superuser
    THEN Outcome(ErrorMessage(MsgSuperuser), db, 0, 0, 0)
    ELSE IF JsonLoadsForm(body) # ""
    THEN Outcome(Unhandled(JsonLoadsForm(body)), db, 0, 0, 0)
    ELSE IF FormIsValid(body)
    THEN SerialConsoleTry(db, body.fqdn, env)
    ELSE Outcome(ErrorMessage(MsgFormErrors), db, 0, 0, 0)

(***************************************************************************)
(* DeleteRemotePowerCommand                                                *)
(***************************************************************************)
\* DeleteRemotePowerCommandGet that, for a superuser, clears the remote power
\* records while it builds the form.
DeleteRemotePowerCommandGetClearing(user, db) ==
    IF user.anonymous \/ ~user.auth
    THEN Outcome(AuthRequiredSerializer, db, 0, 0, 0)
    ELSE IF ~user.is_superuser
    THEN Outcome(ErrorMessage(MsgSuperuser), db, 0, 0, 0)
    ELSE Outcome(InputSerializer(FormOrder, URL_POST("remotepower")),
                 [db EXCEPT !.rp = {}], 0, 0, 0)

DeleteRemotePowerCommandGet(user, db) ==
    IF user.anonymous \/ ~user.auth
    THEN Outcome(AuthRequiredSerializer, db, 0, 0, 0)
    ELSE IF ~user.is_superuser
    THEN Outcome(ErrorMessage(MsgSuperuser), db, 0, 0, 0)
    ELSE Outcome(InputSerializer(FormOrder, URL_POST("remotepower")), db, 0, 0, 0)

\* RemotePowerTry with the precondition of the serial console handler.
RemotePowerTryWrongCheck(db, fqdn, env) ==
    LET machine == MachineObjectsGet(db, fqdn)
    IN  IF machine = NoMachine
        THEN InternalError(db, 1, 0, 0)
        ELSE IF ~has_serialconsole(db, machine)
        THEN Outcome(ErrorMessage(MsgNoRemotePower), db, 1, 0, 0)
        ELSE IF env.delete = "raise"
        THEN InternalError(db, 1, 0, 1)
        ELSE LET result == RemotePowerDelete(db, machine)
             IN  Outcome(TableOf(result.counts), result.db, 1, 0, 1)

\* Lines 306-336: the try block.
RemotePowerTry(db, fqdn, env) ==
    LET machine == MachineObjectsGet(db, fqdn)
    IN  IF machine = NoMachine
        THEN InternalError(db, 1, 0, 0)
        ELSE IF ~has_remotepower(db, machine)
        THEN Outcome(ErrorMessage(MsgNoRemotePower), db, 1, 0, 0)
        ELSE IF env.delete = "raise"
        THEN InternalError(db, 1, 0, 1)
        ELSE LET result == RemotePowerDelete(db, machine)
             IN  Outcome(TableOf(result.counts), result.db, 1, 0, 1)

\* DeleteRemotePowerCommandPost deleting the machine of the remote power.
DeleteRemotePowerCommandPostWholeMachine(user, body, db, env) ==
    IF ~user.is_superuser
    THEN Outcome(ErrorMessage(MsgSuperuser), db, 0, 0, 0)
    ELSE IF JsonLoadsForm(body) # ""
    THEN Outcome(Unhandled(JsonLoadsForm(body)), db, 0, 0, 0)
    ELSE IF FormIsValid(body)
    THEN MachineTry(db, body.fqdn, env)
    ELSE Outcome(ErrorMessage(MsgFormErrors), db, 0, 0, 0)

DeleteRemotePowerCommandPost(user, body, db, env) ==
    IF ~user.is_superuser
    THEN Outcome(ErrorMessage(MsgSuperuser), db, 0, 0, 0)
    ELSE IF JsonLoadsForm(body) # ""
    THEN Outcome(Unhandled(JsonLoadsForm(body)), db, 0, 0, 0)
    ELSE IF FormIsValid(body)
    THEN RemotePowerTry(db, body.fqdn, env)
    ELSE Outcome(ErrorMessage(MsgFormErrors), db, 0, 0, 0)

(***************************************************************************)
(* Requests                                                                *)
(***************************************************************************)
NoUser == [anonymous |-> TRUE, auth |-> FALSE, is_superuser |-> FALSE]
NoBody == [parses |-> FALSE, hasForm |-> FALSE, hasFqdn |-> FALSE, fqdn |-> NoFqdn]
NoArgs == [present |-> FALSE, value |-> <<>>]
NoRecords == [machines |-> {}, sc |-> {}, rp |-> {}]

\* What one request was and did.  removed: the records the request removed;
\* decommissions: the instances the backend removed in it.
Request(op, kind, user, args, body, out, backend) ==
    [op |-> op, kind |-> kind, user |-> user, args |-> args, body |-> body,
     resp |-> out.resp, lookups |-> out.lookups, removes |-> out.removes,
     deletes |-> out.deletes, backend |-> backend,
     removed |-> [machines |-> machines \ out.db.machines, sc |-> sc \ out.db.sc,
                  rp |-> rp \ out.db.rp],
     decommissions |-> out.db.decommissioned \ decommissioned]

\* What the request saw of the backend: nothing, or the outcome of remove().
NoBackend == "none"
BackendSeen(out, env) == IF out.removes = 0 THEN NoBackend ELSE env.remove

NoRequest ==
    [op |-> "none", kind |-> "none", user |-> NoUser, args |-> NoArgs,
     body |-> NoBody, resp |-> NoResponse, lookups |-> 0, removes |-> 0,
     deletes |-> 0, backend |-> NoBackend, removed |-> NoRecords, decommissions |-> {}]

\* The clients whose requests run concurrently, and a client with no request
\* in a view.  pc: the step the request is at; machine: what the lookup bound;
\* backend: the outcome of remove(), if the request got there.
Clients == {"first", "second"}

Idle ==
    [pc |-> "idle", kind |-> "none", fqdn |-> NoFqdn, machine |-> NoMachine,
     resp |-> NoResponse, backend |-> NoBackend]

NoRequests == [c \in Clients |-> Idle]

\* The repository takes the state the request left.
Commit(db) ==
    /\ machines' = db.machines
    /\ sc' = db.sc
    /\ rp' = db.rp
    /\ hypervisor' = db.hypervisor
    /\ decommissioned' = db.decommissioned
    /\ UNCHANGED <<virtual, api>>

\* Words of the dispatcher inputs, each in lower case, in upper case and
\* capitalised.
BaseWords ==
    {MACHINE, SERIALCONSOLE, REMOTEPOWER, <<"b","o","g","u","s">>}
CaseVariants(w) == {w, Upper(w), <<UpperChar[w[1]]>> \o Tail(w)}
Words == UNION {CaseVariants(w) : w \in BaseWords}

TokenSeqs == UNION {[1..n -> Words] : n \in 1..MaxTokens}

Separators == {<<" ">>, <<" ", "\t">>}
Paddings == {<<>>, <<" ">>}

RECURSIVE Join(_, _)
Join(tokens, sep) ==
    IF Len(tokens) = 1 THEN tokens[1]
    ELSE tokens[1] \o sep \o Join(Tail(tokens), sep)

\* Every args the dispatcher is tried on: absent, empty, whitespace only, and
\* the token sequences joined and padded with whitespace.
ArgsBuilt ==
    {[tokens |-> ts, value |-> pad \o Join(ts, sep) \o pad] :
        ts \in TokenSeqs, sep \in Separators, pad \in Paddings}

ArgsInputs ==
    {NoArgs, [present |-> TRUE, value |-> <<>>], [present |-> TRUE, value |-> <<" ">>]}
    \cup {[present |-> TRUE, value |-> built.value] : built \in ArgsBuilt}

\* The args the dispatcher is tried on next to the handlers: one token.
ArgsSample == {a \in ArgsInputs : Len(Split(a.value)) <= 1}

Dispatch(inputs) ==
    \E args \in inputs :
        /\ last = NoRequest
        /\ last' = Request("dispatch", "delete", NoUser, args, NoBody,
                           Outcome(DeleteCommandGet(args), Repo, 0, 0, 0),
                           NoBackend)
        /\ UNCHANGED <<machines, sc, rp, virtual, hypervisor, api, decommissioned,
                       succeeded, reqs, rendering>>

HandlerGet(kind, user, db) ==
    CASE kind = "machine" -> DeleteMachineCommandGet(user, db)
      [] kind = "serialconsole" -> DeleteSerialConsoleCommandGet(user, db)
      [] kind = "remotepower" -> DeleteRemotePowerCommandGet(user, db)

HandlerPost(kind, user, body, db, env) ==
    CASE kind = "machine" -> DeleteMachineCommandPost(user, body, db, env)
      [] kind = "serialconsole" -> DeleteSerialConsoleCommandPost(user, body, db, env)
      [] kind = "remotepower" -> DeleteRemotePowerCommandPost(user, body, db, env)

Describe(kind) ==
    \E user \in Users :
        LET out == HandlerGet(kind, user, Repo)
        IN  /\ last = NoRequest
            /\ last' = Request("describe", kind, user, NoArgs, NoBody, out,
                               NoBackend)
            /\ Commit(out.db)
            /\ UNCHANGED <<succeeded, reqs, rendering>>

Execute(kind) ==
    \E user \in Users, body \in Bodies, env \in Envs :
        LET out == HandlerPost(kind, user, body, Repo, env)
        IN  /\ last = NoRequest
            /\ last' = Request("execute", kind, user, NoArgs, body, out,
                               BackendSeen(out, env))
            /\ Commit(out.db)
            /\ succeeded' = IF kind = "machine" /\ out.resp.kind = "Table"
                             THEN succeeded \cup {body.fqdn}
                             ELSE succeeded
            /\ UNCHANGED <<reqs, rendering>>

(***************************************************************************)
(* Initial states: every machine exists with its serial console and its    *)
(* remote power (the states without them are reached by deleting them); a  *)
(* virtual machine has no hypervisor or a non-virtual one; a machine       *)
(* carries a virtualization API only if it hypervises some machine; the    *)
(* non-virtual machines come first.                                        *)
(***************************************************************************)
Init ==
    /\ machines = MachineIds
    /\ sc = MachineIds
    /\ rp = MachineIds
    /\ virtual \in [MachineIds -> BOOLEAN]
    /\ hypervisor \in [MachineIds -> MachineIds \cup {NoMachine}]
    /\ api \in [MachineIds -> BOOLEAN]
    /\ \A m \in MachineIds :
          /\ hypervisor[m] # NoMachine =>
                virtual[m] /\ hypervisor[m] # m /\ ~virtual[hypervisor[m]]
          /\ api[m] => \E v \in MachineIds : hypervisor[v] = m
          /\ \A n \in MachineIds : (n < m /\ virtual[n]) => virtual[m]
    /\ decommissioned = {}
    /\ succeeded = {}
    /\ last = NoRequest
    /\ reqs = NoRequests
    /\ rendering = NoRendering

\* The response leaves the view: the request/response cycle ends and the
\* next request finds the repository as this one left it.
Respond ==
    /\ last # NoRequest
    /\ last' = NoRequest
    /\ UNCHANGED <<machines, sc, rp, virtual, hypervisor, api, decommissioned,
                   succeeded, reqs, rendering>>

Next ==
    \/ Dispatch(ArgsSample)
    \/ \E kind \in Kinds : Describe(kind)
    \/ \E kind \in Kinds : Execute(kind)
    \/ Respond

Spec == Init /\ [][Next]_vars

\* The dispatcher alone, on every args, over one repository.
InitDispatch == Init /\ virtual = [m \in MachineIds |-> FALSE]

NextDispatch == Dispatch(ArgsInputs) \/ Respond

SpecDispatch == InitDispatch /\ [][NextDispatch]_vars

(***************************************************************************)
(* Concurrent execute requests.  Each client posts one request, by a       *)
(* superuser with a valid form; the requests interleave at the steps of    *)
(* the try block: the lookup, the precondition, the backend's remove() and  *)
(* the repository's delete().  No lock is taken between the steps.         *)
(***************************************************************************)
LabelOf(kind) ==
    CASE kind = "machine" -> LabelMachine
      [] kind = "serialconsole" -> LabelSerialConsole
      [] kind = "remotepower" -> LabelRemotePower

\* The atomic delete of the repository on an instance loaded earlier: a
\* record that is gone by now is counted as zero rows.
RepositoryDelete(db, kind, m) ==
    CASE kind = "machine" ->
            IF m \in db.machines THEN MachineDelete(db, m)
            ELSE [db |-> db, counts |-> << <<LabelMachine, 0>> >>]
      [] kind = "serialconsole" ->
            IF m \in db.sc THEN SerialConsoleDelete(db, m)
            ELSE [db |-> db, counts |-> << <<LabelSerialConsole, 0>> >>]
      [] kind = "remotepower" ->
            IF m \in db.rp THEN RemotePowerDelete(db, m)
            ELSE [db |-> db, counts |-> << <<LabelRemotePower, 0>> >>]

\* Lines 145-149, 231-232 and 311-312: the step the request takes next, or
\* the error it ends with.
PreconditionStep(db, kind, machine) ==
    CASE kind = "machine" ->
            IF is_virtual_machine(machine)
            THEN LET host == get_hypervisor(db, machine)
                 IN  IF host = NoMachine
                     THEN [pc |-> "done", resp |-> ErrorMessage(MsgWentWrong)]
                     ELSE IF ~api[host]
                     THEN [pc |-> "done", resp |-> ErrorMessage(MsgNoVirtApi)]
                     ELSE [pc |-> "remove", resp |-> NoResponse]
            ELSE [pc |-> "delete", resp |-> NoResponse]
      [] kind = "serialconsole" ->
            IF ~has_serialconsole(db, machine)
            THEN [pc |-> "done", resp |-> ErrorMessage(MsgNoSerialConsole)]
            ELSE [pc |-> "delete", resp |-> NoResponse]
      [] kind = "remotepower" ->
            IF ~has_remotepower(db, machine)
            THEN [pc |-> "done", resp |-> ErrorMessage(MsgNoRemotePower)]
            ELSE [pc |-> "delete", resp |-> NoResponse]

\* DeleteStep reporting the row of its target as removed whatever the
\* repository counted.
DeleteStepStaleCount(db, kind, machine, outcome) ==
    IF outcome = "raise"
    THEN [db |-> db, resp |-> ErrorMessage(MsgWentWrong)]
    ELSE [db |-> RepositoryDelete(db, kind, machine).db,
          resp |-> TableOf(<< <<LabelOf(kind), 1>> >>)]

\* Lines 152/154, 234 and 314 with the table of lines 156-172, 236-252 and
\* 316-332: the delete and the response built from its result.
DeleteStep(db, kind, machine, outcome) ==
    IF outcome = "raise"
    THEN [db |-> db, resp |-> ErrorMessage(MsgWentWrong)]
    ELSE LET result == RepositoryDelete(db, kind, machine)
         IN  [db |-> result.db, resp |-> TableOf(result.counts)]

\* Lines 128-138: the request of a superuser with a valid form enters the try
\* block.
Receive(c) ==
    \E kind \in Kinds, m \in MachineIds :
        /\ reqs[c].pc = "idle"
        /\ reqs' = [reqs EXCEPT ![c] = [Idle EXCEPT !.pc = "lookup", !.kind = kind,
                                                     !.fqdn = Fqdn(m)]]
        /\ UNCHANGED <<machines, sc, rp, virtual, hypervisor, api, decommissioned,
                       succeeded, last, rendering>>

\* Lines 143, 229 and 309: Machine.objects.get(fqdn__iexact=...).
Lookup(c) ==
    LET machine == MachineObjectsGet(Repo, reqs[c].fqdn)
    IN  /\ reqs[c].pc = "lookup"
        /\ reqs' = [reqs EXCEPT ![c] =
                      IF machine = NoMachine
                      THEN [@ EXCEPT !.pc = "done", !.resp = ErrorMessage(MsgWentWrong)]
                      ELSE [@ EXCEPT !.pc = "check", !.machine = machine]]
        /\ UNCHANGED <<machines, sc, rp, virtual, hypervisor, api, decommissioned,
                       succeeded, last, rendering>>

Precondition(c) ==
    LET step == PreconditionStep(Repo, reqs[c].kind, reqs[c].machine)
    IN  /\ reqs[c].pc = "check"
        /\ reqs' = [reqs EXCEPT ![c] = [@ EXCEPT !.pc = step.pc, !.resp = step.resp]]
        /\ UNCHANGED <<machines, sc, rp, virtual, hypervisor, api, decommissioned,
                       succeeded, last, rendering>>

\* Line 151: host.virtualization_api.remove(machine).
Decommission(c) ==
    \E remove \in {env.remove : env \in Envs} :
        /\ reqs[c].pc = "remove"
        /\ reqs' = [reqs EXCEPT ![c] =
                      IF remove = "true"
                      THEN [@ EXCEPT !.pc = "delete", !.backend = remove]
                      ELSE [@ EXCEPT !.pc = "done", !.backend = remove,
                                     !.resp = ErrorMessage(MsgWentWrong)]]
        /\ Commit(IF remove = "true" THEN BackendRemove(Repo, reqs[c].machine)
                  ELSE Repo)
        /\ UNCHANGED <<succeeded, last, rendering>>

Delete(c) ==
    \E delete \in {env.delete : env \in Envs} :
        LET step == DeleteStep(Repo, reqs[c].kind, reqs[c].machine, delete)
        IN  /\ reqs[c].pc = "delete"
            /\ reqs' = [reqs EXCEPT ![c] = [@ EXCEPT !.pc = "done", !.resp = step.resp]]
            /\ Commit(step.db)
            /\ UNCHANGED <<succeeded, last, rendering>>

NextConcurrent ==
    \E c \in Clients :
        Receive(c) \/ Lookup(c) \/ Precondition(c) \/ Decommission(c) \/ Delete(c)

SpecConcurrent == Init /\ [][NextConcurrent]_vars

\* The table of lines 156-172 on its own, built from any mapping the
\* repository may return.
Render ==
    \E counts \in CountMappings :
        /\ rendering = NoRendering
        /\ rendering' = [counts |-> counts, resp |-> TableOf(counts)]
        /\ UNCHANGED <<machines, sc, rp, virtual, hypervisor, api, decommissioned,
                       succeeded, last, reqs>>

NextTable == Render

SpecTable == Init /\ [][NextTable]_vars

(***************************************************************************)
(* Properties                                                              *)
(***************************************************************************)
\* The spellings of a machine's fqdn that are posted.
PostedFor(m) == {Fqdn(m), Lower(Fqdn(m)), Upper(Fqdn(m))}

\* The response kinds of the error taxonomy, by the message of the response.
Forbidden == ErrorMessage(MsgSuperuser)
ValidationError == ErrorMessage(MsgFormErrors)
ConfigurationError == ErrorMessage(MsgNoVirtApi)
InternalErrorResponse == ErrorMessage(MsgWentWrong)
PreconditionFailed(kind) ==
    IF kind = "serialconsole" THEN ErrorMessage(MsgNoSerialConsole)
    ELSE ErrorMessage(MsgNoRemotePower)

\* A response that is an error: an error message, the authentication demand,
\* or the failure of the view itself.
IsError(resp) == resp.kind \in {"ErrorMessage", "AuthRequired", "Unhandled"}

RECURSIVE SumCounts(_)
SumCounts(rows) ==
    IF rows = <<>> THEN 0 ELSE Head(rows).count + SumCounts(Tail(rows))

RemovedTotal ==
    Cardinality(last.removed.machines) + Cardinality(last.removed.sc)
        + Cardinality(last.removed.rp)

\* The deletion the request asks for was performed, and nothing else went.
TargetedDeletionDone ==
    \E m \in MachineIds :
        /\ last.body.fqdn \in PostedFor(m)
        /\ CASE last.kind = "machine" ->
                    /\ last.removed.machines = {m}
                    /\ last.removed.sc \subseteq {m}
                    /\ last.removed.rp \subseteq {m}
                    /\ m \notin machines \cup sc \cup rp
             [] last.kind = "serialconsole" ->
                    /\ last.removed = [machines |-> {}, sc |-> {m}, rp |-> {}]
                    /\ m \notin sc
             [] last.kind = "remotepower" ->
                    /\ last.removed = [machines |-> {}, sc |-> {}, rp |-> {m}]
                    /\ m \notin rp

\* C1: every execute request, of any kind, by any principal, with any body, in
\* any repository state, either performs the targeted deletion and answers
\* with a table of the counts of what it removed, or answers with an error and
\* removes no machine, serial console or remote power record.
C1_ExecuteAllOrNothing ==
    last.op = "execute" =>
        \/ /\ last.resp.kind = "Table"
           /\ TargetedDeletionDone
           /\ SumCounts(last.resp.rows) = RemovedTotal
        \/ /\ IsError(last.resp)
           /\ last.removed = NoRecords

\* C1 witness: the delete of a virtual machine went through, the backend
\* called and the serial console removed with the record.
C1_Witness ==
    /\ last.op = "execute" /\ last.kind = "machine"
    /\ last.resp.kind = "Table"
    /\ last.removed.machines # {} /\ last.removed.sc # {}
    /\ last.removes = 1

\* C2: a principal that is anonymous or carries no credential, whatever its
\* superuser flag, gets AuthRequired or Forbidden from every describe and
\* execute, no record is removed and the backend is not invoked.  (Stated for
\* the executes whose body carries a form: what an unreadable body does is
\* C10's.)
C2_UnauthenticatedRefused ==
    (/\ last.op \in {"describe", "execute"}
     /\ last.user.anonymous \/ ~last.user.auth
     /\ last.op = "execute" => (last.body.parses /\ last.body.hasForm)) =>
        /\ last.resp \in {AuthRequiredSerializer, Forbidden}
        /\ last.removed = NoRecords
        /\ last.removes = 0

\* C3: an authenticated principal that is no superuser gets Forbidden from
\* describe and execute of every kind, whatever the body, and the request
\* makes no lookup, no backend call and no deletion.
C3_NonSuperuserForbidden ==
    (/\ last.op \in {"describe", "execute"}
     /\ ~last.user.anonymous /\ last.user.auth /\ ~last.user.is_superuser) =>
        /\ last.resp = Forbidden
        /\ last.lookups = 0 /\ last.removes = 0 /\ last.deletes = 0
        /\ last.removed = NoRecords /\ last.decommissions = {}

\* C3 witness: an authenticated non-superuser posted the fqdn of a machine
\* that exists, with its serial console, to the serial console delete.
C3_Witness ==
    /\ last.op = "execute" /\ last.kind = "serialconsole"
    /\ ~last.user.anonymous /\ last.user.auth /\ ~last.user.is_superuser
    /\ \E m \in machines \cap sc : last.body.hasFqdn /\ last.body.fqdn \in PostedFor(m)
    /\ last.resp = Forbidden

\* C4: a dispatch or describe request, by any principal with any args, leaves
\* the machine, serial console and remote power records and the backend as
\* they were; a step that changes any of them answers an execute request.
C4_OnlyExecuteMutates ==
    [][/\ last'.op \in {"dispatch", "describe"} =>
            UNCHANGED <<machines, sc, rp, hypervisor, decommissioned>>
       /\ ~(UNCHANGED <<machines, sc, rp, hypervisor, decommissioned>>) =>
            last'.op = "execute"]_vars

\* C4 witness: a superuser got the remote power form while remote power
\* records existed, after an earlier request had removed a machine.
C4_Witness ==
    /\ last.op = "describe" /\ last.kind = "remotepower"
    /\ last.resp.kind = "Input"
    /\ rp # {} /\ machines # MachineIds

\* The registered word a token is a spelling of, and its kind.
BaseOf(token) == CHOOSE b \in BaseWords : token \in CaseVariants(b)
Registered == {as_list[i] : i \in 1..Len(as_list)}
KindOfWord(b) ==
    CASE b = MACHINE -> "machine"
      [] b = SERIALCONSOLE -> "serialconsole"
      [] b = REMOTEPOWER -> "remotepower"

\* The classification of the dispatcher's args, by the tokens the args were
\* built from; an UnknownItem names the token as given, or (lowered) in lower
\* case.
DispatchClassifies(lowered) ==
    last.op = "dispatch" =>
        /\ ~last.args.present => last.resp = ErrorMessage(MsgItemMissing)
        /\ \A built \in ArgsBuilt :
              (last.args.present /\ last.args.value = built.value) =>
                 LET ts == built.tokens
                     b == BaseOf(ts[1])
                 IN  IF b \notin Registered
                     THEN last.resp = ErrorMessageFmt(MsgUnknownItem,
                                                      IF lowered THEN b ELSE ts[1])
                     ELSE IF Len(ts) > 1
                     THEN last.resp = ErrorMessage(MsgInvalidCount(KindOfWord(b)))
                     ELSE last.resp = Redirect(UrlName(KindOfWord(b)))

\* C5 as stated: absent args give "Item is missing!"; a first token that is,
\* whatever its case, no registered item gives UnknownItem naming that token,
\* also when tokens follow; a registered first token with further tokens gives
\* InvalidArgumentCount for that item; a registered token alone is forwarded
\* to the handler of that kind.
C5_DispatchNamesToken == DispatchClassifies(FALSE)

\* C5 amended: the same classification, the UnknownItem naming the token in
\* lower case.
C5_DispatchNamesLoweredToken == DispatchClassifies(TRUE)

\* C5 witness: an unregistered first token in upper case, followed by a
\* second token, was answered with UnknownItem naming it in lower case.
C5_Witness ==
    /\ last.op = "dispatch"
    /\ \E ts \in TokenSeqs :
          /\ Len(ts) = 2 /\ ts[1] = Upper(<<"b","o","g","u","s">>)
          /\ last.args.value = Join(ts, <<" ">>)
    /\ last.resp = ErrorMessageFmt(MsgUnknownItem, <<"b","o","g","u","s">>)

\* A superuser's execute whose body carries a form with an fqdn.
SuperuserExecute(kind) ==
    /\ last.op = "execute" /\ last.kind = kind
    /\ last.user.is_superuser
    /\ last.body.parses /\ last.body.hasForm /\ last.body.hasFqdn

\* C6: a superuser's machine delete of a virtual machine whose hypervisor has
\* no virtualization API answers "No virtualization API found!", calls no
\* backend and leaves the machine record in place; the same request again, on
\* the state it left, gives the same answer and the same state.
C6_NoVirtApiFailsIdempotently ==
    \A m \in MachineIds :
        (/\ SuperuserExecute("machine")
         /\ last.body.fqdn \in PostedFor(m)
         /\ m \in machines \cup last.removed.machines
         /\ virtual[m] /\ hypervisor[m] # NoMachine /\ ~api[hypervisor[m]]) =>
            /\ last.resp = ConfigurationError
            /\ last.removes = 0 /\ last.decommissions = {}
            /\ m \in machines /\ last.removed = NoRecords
            /\ \A env \in Envs :
                  DeleteMachineCommandPost(last.user, last.body, Repo, env)
                      = Outcome(last.resp, Repo, last.lookups, 0, 0)

\* C6 witness: such a request was answered with the configuration error.
C6_Witness ==
    /\ SuperuserExecute("machine")
    /\ \E m \in machines :
          /\ last.body.fqdn \in PostedFor(m)
          /\ virtual[m] /\ hypervisor[m] # NoMachine /\ ~api[hypervisor[m]]
    /\ last.resp = ConfigurationError

\* C7: a superuser's serial console delete (remote power delete) with the fqdn
\* of an existing machine that has no serial console (no remote power) answers
\* with that kind's precondition message and removes no record of any kind.
C7_MissingSubResource ==
    \A m \in machines :
        /\ (/\ SuperuserExecute("serialconsole")
            /\ last.body.fqdn \in PostedFor(m)
            /\ m \notin sc \cup last.removed.sc) =>
               /\ last.resp = ErrorMessage(MsgNoSerialConsole)
               /\ last.removed = NoRecords /\ last.deletes = 0
        /\ (/\ SuperuserExecute("remotepower")
            /\ last.body.fqdn \in PostedFor(m)
            /\ m \notin rp \cup last.removed.rp) =>
               /\ last.resp = ErrorMessage(MsgNoRemotePower)
               /\ last.removed = NoRecords /\ last.deletes = 0

\* C7 witness: a remote power delete for a machine that still has its serial
\* console but no remote power was refused.
C7_Witness ==
    /\ SuperuserExecute("remotepower")
    /\ \E m \in machines \cap sc : last.body.fqdn \in PostedFor(m) /\ m \notin rp
    /\ last.resp = PreconditionFailed("remotepower")

\* C8: a superuser's execute, of any kind, whose form fails validation answers
\* with the form's errors and makes no lookup, no backend call and no
\* deletion.
C8_InvalidFormTouchesNothing ==
    (/\ last.op = "execute" /\ last.user.is_superuser
     /\ last.body.parses /\ last.body.hasForm
     /\ ~FormIsValid(last.body)) =>
        /\ last.resp = ValidationError
        /\ last.lookups = 0 /\ last.removes = 0 /\ last.deletes = 0
        /\ last.removed = NoRecords /\ last.decommissions = {}

\* C8 witness: a superuser posted an empty fqdn to the machine delete.
C8_Witness ==
    /\ SuperuserExecute("machine")
    /\ last.body.fqdn = NoFqdn
    /\ last.resp = ValidationError

\* C9 as stated: once a machine delete for an fqdn has returned its table,
\* every later execute of any kind with that fqdn answers "Something went
\* wrong!", never a table, and removes nothing.
C9_LaterExecuteInternalError ==
    [][(/\ last'.op = "execute"
        /\ last'.body.parses /\ last'.body.hasForm /\ last'.body.hasFqdn
        /\ last'.body.fqdn \in succeeded) =>
            /\ last'.resp = InternalErrorResponse
            /\ last'.removed = NoRecords]_vars

\* C9 amended: such a later execute answers "Something went wrong!" when a
\* superuser sends it and Forbidden when another principal does; it never
\* answers with a table and removes nothing.
C9_LaterExecuteFails ==
    [][(/\ last'.op = "execute"
        /\ last'.body.parses /\ last'.body.hasForm /\ last'.body.hasFqdn
        /\ last'.body.fqdn \in succeeded) =>
            /\ last'.resp = IF last'.user.is_superuser
                            THEN InternalErrorResponse ELSE Forbidden
            /\ last'.resp.kind # "Table"
            /\ last'.removed = NoRecords]_vars

\* C9 witness: a superuser's serial console delete with an fqdn whose machine
\* an earlier request deleted was answered "Something went wrong!".
C9_Witness ==
    /\ SuperuserExecute("serialconsole")
    /\ last.body.fqdn \in succeeded
    /\ last.lookups = 1
    /\ last.resp = InternalErrorResponse

\* C10: every execute of a superuser, whatever the body, ends in a table, a
\* validation error, a failed precondition, a configuration error or
\* "Something went wrong!"; no exception leaves the view.
C10_StructuredOutcome ==
    (last.op = "execute" /\ last.user.is_superuser) =>
        \/ last.resp.kind = "Table"
        \/ last.resp \in {ValidationError, PreconditionFailed("serialconsole"),
                          PreconditionFailed("remotepower"), ConfigurationError,
                          InternalErrorResponse}

\* The four answers of the dispatcher.
IsMissingArgument(resp) == resp = ErrorMessage(MsgItemMissing)
IsUnknownItem(resp) ==
    resp.kind = "ErrorMessage" /\ resp.text = MsgUnknownItem /\ resp.item # <<>>
IsInvalidArgumentCount(resp) ==
    \E kind \in Kinds : resp = ErrorMessage(MsgInvalidCount(kind))
IsForward(resp) == \E kind \in Kinds : resp = Redirect(UrlName(kind))

\* C11: the dispatcher is total: for every args, the empty string and a
\* string of whitespace only included, it answers with exactly one of
\* MissingArgument, UnknownItem, InvalidArgumentCount or a forward to a
\* handler, and no exception leaves it.
C11_DispatchTotal ==
    last.op = "dispatch" =>
        /\ last.resp.kind # "Unhandled"
        /\ Cardinality({i \in 1..4 :
              <<IsMissingArgument(last.resp), IsUnknownItem(last.resp),
                IsInvalidArgumentCount(last.resp), IsForward(last.resp)>>[i]}) = 1

\* get_urls of the three handlers: the pattern of each route, without its
\* anchor.  The API root ends with the "/" that URL_POST starts with.
UrlPattern(kind) ==
    CASE kind = "machine" -> "machine/delete"
      [] kind = "serialconsole" -> "serialconsole/delete"
      [] kind = "remotepower" -> "remotepower/delete"

\* The handlers a POST to a path is routed to.
RouteOf(path) == {kind \in Kinds : path = "/" \o UrlPattern(kind)}

\* The handlers reverse('api:<name>') of a redirect leads to.
RouteByName(name) == {kind \in Kinds : UrlName(kind) = name}

AuthenticatedSuperuser(user) ==
    ~user.anonymous /\ user.auth /\ user.is_superuser

\* C12: describe by an authenticated superuser answers the form schema whose
\* submit path is the POST path of the same kind, so that a dispatch to a
\* kind, the describe it forwards to and an execute at the submit path all
\* reach the handler of that kind.
C12_DescribeSubmitsToOwnKind ==
    /\ (last.op = "describe" /\ AuthenticatedSuperuser(last.user)) =>
          /\ last.resp = InputSerializer(FormOrder, URL_POST(last.kind))
          /\ RouteOf(last.resp.path) = {last.kind}
    /\ (last.op = "dispatch" /\ IsForward(last.resp)) =>
          \E kind \in Kinds :
              /\ RouteByName(last.resp.path) = {kind}
              /\ \A user \in Users :
                    AuthenticatedSuperuser(user) =>
                        RouteOf(HandlerGet(kind, user, Repo).resp.path) = {kind}

C12_Witness ==
    /\ last.op = "describe" /\ last.kind = "serialconsole"
    /\ AuthenticatedSuperuser(last.user)
    /\ last.resp.kind = "Input"
    /\ RouteOf(last.resp.path) = {"serialconsole"}

\* The machines a posted fqdn names, deleted by now or not.
Targets == {m \in MachineIds : last.body.fqdn \in PostedFor(m)}

\* C13: the record of a virtual machine is deleted only once the backend's
\* decommission was invoked and succeeded; when the decommission returns
\* false or raises, the record is not deleted and the answer is the internal
\* error "Something went wrong!"; for a machine that is not virtual the
\* backend is never invoked and the record is deleted directly.
C13_DecommissionGuardsDelete ==
    (last.op = "execute" /\ last.kind = "machine") =>
        \A m \in Targets :
            /\ (virtual[m] /\ m \in last.removed.machines) =>
                  /\ last.removes = 1 /\ last.backend = "true"
                  /\ m \in decommissioned
            /\ (virtual[m] /\ last.backend \in {"false", "raise"}) =>
                  /\ last.deletes = 0 /\ last.removed = NoRecords
                  /\ m \in machines
                  /\ last.resp = InternalErrorResponse
            /\ ~virtual[m] =>
                  /\ last.removes = 0 /\ last.backend = NoBackend
                  /\ last.decommissions = {}
                  /\ last.resp.kind = "Table" =>
                        (last.deletes = 1 /\ m \in last.removed.machines)

\* C13 witness: the backend refused to remove a virtual machine, and the
\* record is still there.
C13_Witness ==
    /\ last.op = "execute" /\ last.kind = "machine"
    /\ last.backend = "false"
    /\ \E m \in Targets : virtual[m] /\ m \in machines
    /\ last.resp = InternalErrorResponse

\* C14: a machine delete that ends in an error has changed nothing, the
\* backend included: in no reachable state has the request answered with an
\* error while the record still exists and the backend has already
\* decommissioned the instance in that request.  (Stated for the requests of
\* an authenticated superuser.)
C14_ErrorLeavesBackendUntouched ==
    (/\ last.op = "execute" /\ last.kind = "machine"
     /\ AuthenticatedSuperuser(last.user)
     /\ IsError(last.resp)) =>
        /\ last.removed = NoRecords
        /\ last.decommissions = {}
        /\ ~(\E m \in Targets : m \in machines /\ last.backend = "true")

\* C15: within one execute request, of any kind, the repository delete is
\* invoked at most once and the backend's decommission at most once; after a
\* failure of either the request ends without issuing it again, and only the
\* machine handler ever invokes the backend.
C15_NoRetry ==
    last.op = "execute" =>
        /\ last.lookups <= 1 /\ last.deletes <= 1 /\ last.removes <= 1
        /\ last.backend \in {"false", "raise"} => last.deletes = 0
        /\ last.kind # "machine" => last.removes = 0
        /\ Cardinality(last.removed.machines) <= 1
        /\ Cardinality(last.decommissions) <= 1

\* C15 witness: the backend removed the instance, the one delete() raised,
\* and the request ended there.
C15_Witness ==
    /\ last.op = "execute" /\ last.kind = "machine"
    /\ last.resp = InternalErrorResponse
    /\ last.backend = "true" /\ last.removes = 1
    /\ last.deletes = 1 /\ last.removed = NoRecords

\* The count of removed records a client's response reports.
Reported(c) ==
    IF reqs[c].resp.kind = "Table" THEN SumCounts(reqs[c].resp.rows) ELSE 0

RECURSIVE ReportedBy(_)
ReportedBy(clients) ==
    IF clients = {} THEN 0
    ELSE LET c == CHOOSE x \in clients : TRUE
         IN  Reported(c) + ReportedBy(clients \ {c})

\* The records gone from the repository, which starts with every record.
ActuallyRemoved ==
    Cardinality(MachineIds \ machines) + Cardinality(MachineIds \ sc)
        + Cardinality(MachineIds \ rp)

\* The client's response is a table saying its target record was removed.
ReportsTarget(c) ==
    /\ reqs[c].resp.kind = "Table"
    /\ \E i \in 1..Len(reqs[c].resp.rows) :
          /\ reqs[c].resp.rows[i].objects = StripData(LabelOf(reqs[c].kind))
          /\ reqs[c].resp.rows[i].count > 0

SameTarget(c, d) ==
    /\ c # d
    /\ reqs[c].kind = reqs[d].kind /\ reqs[c].kind \in Kinds
    /\ reqs[c].fqdn = reqs[d].fqdn

\* C16: of two concurrent execute requests by superusers on the same fqdn,
\* interleaved at the lookup, the precondition, the decommission and the
\* atomic delete, the one whose delete comes second finds the record already
\* gone: at most one of them answers with a table reporting that it removed
\* the target record, and the counts reported by the two responses add up to
\* the number of records actually removed.
C16_SecondDeleteSeesGone ==
    /\ \A c, d \in Clients :
          SameTarget(c, d) => ~(ReportsTarget(c) /\ ReportsTarget(d))
    /\ ReportedBy(Clients) = ActuallyRemoved

\* C16 witness: both requests on the same machine got as far as the delete
\* and answered with a table; one removed the record, the other counted none.
C16_Witness ==
    \E c, d \in Clients :
        /\ SameTarget(c, d) /\ reqs[c].kind = "machine"
        /\ reqs[c].resp.kind = "Table" /\ reqs[d].resp.kind = "Table"
        /\ ReportsTarget(c) /\ ~ReportsTarget(d)
        /\ reqs[d].machine = reqs[c].machine

\* C17: across every interleaving of concurrent machine deletes of the same
\* virtual machine, the backend's decommission of it succeeds at most once:
\* no virtual instance is decommissioned twice.
C17_DecommissionedAtMostOnce ==
    \A m \in MachineIds :
        Cardinality({c \in Clients : /\ reqs[c].kind = "machine"
                                     /\ reqs[c].machine = m
                                     /\ reqs[c].backend = "true"}) <= 1

\* The step answers an execute of the kind with a table.
Succeeds(kind) ==
    /\ last = NoRequest
    /\ last'.op = "execute" /\ last'.kind = kind
    /\ last'.resp.kind = "Table"

\* C18: a successful serial console delete removes the serial console of the
\* target machine and nothing else: the machine record, its remote power,
\* every record of every other machine and the hypervisor links stay, and
\* the backend is not invoked; likewise a successful remote power delete
\* removes the remote power alone.
C18_SubResourceDeleteFrame ==
    [][/\ Succeeds("serialconsole") =>
            /\ \E m \in machines \cap sc :
                  /\ last'.body.fqdn \in PostedFor(m)
                  /\ sc' = sc \ {m}
            /\ UNCHANGED <<machines, rp, hypervisor, decommissioned>>
            /\ last'.removes = 0 /\ last'.backend = NoBackend
       /\ Succeeds("remotepower") =>
            /\ \E m \in machines \cap rp :
                  /\ last'.body.fqdn \in PostedFor(m)
                  /\ rp' = rp \ {m}
            /\ UNCHANGED <<machines, sc, hypervisor, decommissioned>>
            /\ last'.removes = 0 /\ last'.backend = NoBackend]_vars

\* C18 witness: the remote power of a machine was deleted; the machine and
\* its serial console are there, as are the records of another machine.
C18_Witness ==
    /\ last.op = "execute" /\ last.kind = "remotepower"
    /\ last.resp.kind = "Table"
    /\ \E m \in Targets :
          /\ last.removed = [machines |-> {}, sc |-> {}, rp |-> {m}]
          /\ m \in machines \cap sc
          /\ \E n \in machines \ {m} : n \in sc \cap rp

\* A name with its leading "data." removed, and no other part of it.
WithoutLeadingPrefix(key) ==
    IF Len(key) >= Len(DataPrefix) /\ SubSeq(key, 1, Len(DataPrefix)) = DataPrefix
    THEN SubSeq(key, Len(DataPrefix) + 1, Len(key))
    ELSE key

\* C19: the table of a successful execute has exactly one row per kind of the
\* repository's removal-count mapping, the kinds counted zero included; each
\* row carries the count of its kind unchanged, and its name is the kind's
\* name with its leading "data." removed and nothing else: data.Machine
\* becomes Machine, a name without that prefix stays as it is.
C19_TableRows ==
    rendering.resp.kind = "Table" =>
        /\ Len(rendering.resp.rows) = Len(rendering.counts)
        /\ \A i \in 1..Len(rendering.counts) :
              /\ rendering.resp.rows[i].count = rendering.counts[i][2]
              /\ rendering.resp.rows[i].objects =
                    WithoutLeadingPrefix(rendering.counts[i][1])

====
